---------------------------- MODULE Spec2Model ----------------------------
(***************************************************************************)
(* A model of purechance.core: seed resolution (get_rng), coinflip, draw,  *)
(* integers and shuffle, together with the caller-visible memory they act  *)
(* on: the heap of random.Random objects, the heap of list objects and the *)
(* lazy iterator returned by integers.                                     *)
(*                                                                         *)
(* random.Random is the standard library's generator.  It is modelled as a *)
(* deterministic generator with a StateBits-bit state: every primitive     *)
(* (random, getrandbits, _randbelow, randrange, choices, sample) is        *)
(* written as the library computes it from the underlying word source, and *)
(* returns the value, the new state and the number of words consumed.      *)
(***************************************************************************)
EXTENDS Integers, Sequences, FiniteSets, TLC

\* ------------------------------------------------------------- bounds
StateBits == 2          \* width of a generator's state
MaxSeed   == 1          \* integer seeds are 0..MaxSeed
BiasDen   == 2          \* a bias is b / BiasDen for an integer b
MaxLen    == 2          \* longest items list
MaxInt    == 1          \* integers: lower, upper in 0..MaxInt, size up to MaxInt + 1

Modulus  == 2 ^ StateBits
States   == 0 .. (Modulus - 1)
Entropy  == States
Elems    == {"a", "b"}
Biases   == (-1) .. (BiasDen + 1)
Sizes    == (-1) .. (MaxLen + 1)
Counts   == 0 .. (MaxInt + 1)
Range    == 0 .. MaxInt

VARIABLES gens, lists, it, priv, cur
vars == <<gens, lists, it, priv, cur>>

\* ------------------------------------------------------ random.Random
\* The underlying word source: one step of a full-period generator.
Step(s) == (5 * s + 3) % Modulus

RECURSIVE StepN(_, _)
StepN(s, n) == IF n = 0 THEN s ELSE StepN(Step(s), n - 1)

\* int.bit_length()
RECURSIVE bit_length(_)
bit_length(n) == IF n = 0 THEN 0 ELSE 1 + bit_length(n \div 2)

\* random.Random(seed): an integer seed fixes the state, no seed takes it
\* from the operating system's entropy.
Random(seed, entropy) ==
    IF seed.kind = "int" THEN (3 * seed.v + 1) % Modulus ELSE entropy

\* rng.random(): one word, a uniform value v / Modulus in [0, 1).
random(s) == [v |-> Step(s), s |-> Step(s), n |-> 1]

\* rng.getrandbits(k): the k high bits of one word.
getrandbits(k, s) ==
    [v |-> Step(s) \div (2 ^ (StateBits - k)), s |-> Step(s), n |-> 1]

\* rng._randbelow(n): getrandbits(n.bit_length()) until the value is below n.
RECURSIVE randbelow(_, _)
randbelow(n, s) ==
    LET r == getrandbits(bit_length(n), s)
    IN  IF r.v < n THEN r
        ELSE LET t == randbelow(n, r.s)
             IN  [v |-> t.v, s |-> t.s, n |-> t.n + 1]

\* rng.randrange(start, stop): the width is checked before any word is drawn.
randrange(start, stop, s) ==
    IF stop - start > 0
    THEN LET r == randbelow(stop - start, s)
         IN  [status |-> "ok", v |-> start + r.v, s |-> r.s, n |-> r.n]
    ELSE [status |-> "EmptyRange", v |-> 0, s |-> s, n |-> 0]

\* rng.choices(population, k=k): population[floor(random() * n)], k times.
RECURSIVE choices(_, _, _)
choices(population, k, s) ==
    IF k = 0 THEN [status |-> "ok", v |-> <<>>, s |-> s, n |-> 0]
    ELSE LET u == random(s)
             j == (u.v * Len(population)) \div Modulus
             t == choices(population, k - 1, u.s)
         IN  [status |-> "ok", v |-> <<population[j + 1]>> \o t.v,
              s |-> t.s, n |-> t.n + 1]

\* The selection loop of rng.sample: result[i] = pool[j]; pool[j] = pool[n-i-1].
RECURSIVE sample_loop(_, _, _)
sample_loop(pool, k, s) ==
    IF k = 0 THEN [v |-> <<>>, s |-> s, n |-> 0]
    ELSE LET m == Len(pool)
             r == randbelow(m, s)
             moved == [pool EXCEPT ![r.v + 1] = pool[m]]
             t == sample_loop(SubSeq(moved, 1, m - 1), k - 1, r.s)
         IN  [v |-> <<pool[r.v + 1]>> \o t.v, s |-> t.s, n |-> t.n + r.n]

\* rng.sample(population, k=k): k distinct positions; a sample larger than
\* the population (or negative) is refused before any word is drawn.
sample(population, k, s) ==
    IF ~(0 <= k /\ k <= Len(population))
    THEN [status |-> "InvalidSize", v |-> <<>>, s |-> s, n |-> 0]
    ELSE LET t == sample_loop(population, k, s)
         IN  [status |-> "ok", v |-> t.v, s |-> t.s, n |-> t.n]

\* ------------------------------------------------------------- seeds
\* Seed = int | random.Random | None; "bad" is any other value.
NoSeed      == [kind |-> "none", v |-> 0]
IntSeed(i)  == [kind |-> "int", v |-> i]
RngSeed(g)  == [kind |-> "rng", v |-> g]
BadSeed     == [kind |-> "bad", v |-> 0]
Seeds(heap) == {NoSeed, BadSeed} \cup {IntSeed(i) : i \in 0 .. MaxSeed}
                   \cup {RngSeed(g) : g \in 1 .. Len(heap)}
Shared(heap) == {IntSeed(i) : i \in 0 .. MaxSeed}
                   \cup {RngSeed(g) : g \in 1 .. Len(heap)}
IsFresh(seed) == seed.kind \in {"none", "int"}
IsValid(seed) == seed.kind \in {"none", "int", "rng"}

\* --------------------------------------------------- purechance.core
\* What a call hands back: how it ended, its value (flag: coinflip's
\* boolean; res: the list object draw returns; num: the integer next()
\* yields), the generator it resolved, the words it drew, and the memory
\* (generator objects, list objects) it leaves.
Outcome(status, flag, res, num, id, n, heap, ls) ==
    [status |-> status, flag |-> flag, res |-> res, num |-> num, id |-> id,
     n |-> n, gens |-> heap, lists |-> ls]
Raise(status, id, heap, ls) == Outcome(status, FALSE, 0, <<>>, id, 0, heap, ls)

\* get_rng(seed): the instance itself, or a new generator, or ValueError.
\* Faulty variant of get_rng: random.Random() in place of random.Random(seed).
get_rng_unseeded(seed, heap, entropy) ==
    IF seed.kind = "rng"
    THEN [status |-> "ok", id |-> seed.v, gens |-> heap]
    ELSE IF seed.kind \in {"none", "int"}
    THEN [status |-> "ok", id |-> Len(heap) + 1,
          gens |-> Append(heap, Random(NoSeed, entropy))]
    ELSE [status |-> "InvalidSeed", id |-> 0, gens |-> heap]
\* Faulty variant of get_rng: a copy of the instance in place of the instance.
get_rng_copy(seed, heap, entropy) ==
    IF seed.kind = "rng"
    THEN [status |-> "ok", id |-> Len(heap) + 1,
          gens |-> Append(heap, heap[seed.v])]
    ELSE IF seed.kind \in {"none", "int"}
    THEN [status |-> "ok", id |-> Len(heap) + 1,
          gens |-> Append(heap, Random(seed, entropy))]
    ELSE [status |-> "InvalidSeed", id |-> 0, gens |-> heap]
get_rng(seed, heap, entropy) ==
    IF seed.kind = "rng"
    THEN [status |-> "ok", id |-> seed.v, gens |-> heap]
    ELSE IF seed.kind \in {"none", "int"}
    THEN [status |-> "ok", id |-> Len(heap) + 1,
          gens |-> Append(heap, Random(seed, entropy))]
    ELSE [status |-> "InvalidSeed", id |-> 0, gens |-> heap]

\* coinflip(bias, seed); bias is the numerator b of b / BiasDen.
\* Faulty variant of coinflip: rng.random() <= bias.
coinflip_le(bias, seed, heap, entropy) ==
    IF ~(0 <= bias /\ bias <= BiasDen)
    THEN Raise("InvalidBias", 0, heap, <<>>)
    ELSE LET r == get_rng(seed, heap, entropy)
         IN  IF r.status # "ok" THEN Raise(r.status, 0, heap, <<>>)
             ELSE LET u == random(r.gens[r.id])
                  IN  Outcome("ok", u.v * BiasDen <= bias * Modulus, 0, <<>>,
                              r.id, u.n, [r.gens EXCEPT ![r.id] = u.s], <<>>)
\* Faulty variant of coinflip: the bias is checked after the draw.
coinflip_draw_first(bias, seed, heap, entropy) ==
    LET r == get_rng(seed, heap, entropy)
    IN  IF r.status # "ok" THEN Raise(r.status, 0, heap, <<>>)
        ELSE LET u == random(r.gens[r.id])
                 after == [r.gens EXCEPT ![r.id] = u.s]
             IN  IF ~(0 <= bias /\ bias <= BiasDen)
                 THEN Outcome("InvalidBias", FALSE, 0, <<>>, r.id, u.n, after, <<>>)
                 ELSE Outcome("ok", u.v * BiasDen < bias * Modulus, 0, <<>>,
                              r.id, u.n, after, <<>>)
coinflip(bias, seed, heap, entropy) ==
    IF ~(0 <= bias /\ bias <= BiasDen)
    THEN Raise("InvalidBias", 0, heap, <<>>)
    ELSE LET r == get_rng(seed, heap, entropy)
         IN  IF r.status # "ok" THEN Raise(r.status, 0, heap, <<>>)
             ELSE LET u == random(r.gens[r.id])
                  IN  Outcome("ok", u.v * BiasDen < bias * Modulus, 0, <<>>,
                              r.id, u.n, [r.gens EXCEPT ![r.id] = u.s], <<>>)

\* draw(items, replace, size, seed); items is a reference into the list
\* heap ls, and the result is a new list object appended to it.
\* Faulty variant of draw: rng.sample(items, k=min(size, len(items))).
draw_clamp(items, replace, size, seed, heap, ls, entropy) ==
    LET r == get_rng(seed, heap, entropy)
        m == IF size > Len(ls[items]) THEN Len(ls[items]) ELSE size
    IN  IF r.status # "ok" THEN Raise(r.status, 0, heap, ls)
        ELSE IF size < 0 THEN Raise("InvalidSize", r.id, r.gens, ls)
        ELSE IF Len(ls[items]) = 0 \/ size = 0
        THEN Outcome("ok", FALSE, Len(ls) + 1, <<>>, r.id, 0, r.gens,
                     Append(ls, <<>>))
        ELSE LET d == IF replace THEN choices(ls[items], size, r.gens[r.id])
                                 ELSE sample(ls[items], m, r.gens[r.id])
             IN  IF d.status # "ok" THEN Raise(d.status, r.id, r.gens, ls)
                 ELSE Outcome("ok", FALSE, Len(ls) + 1, <<>>, r.id, d.n,
                              [r.gens EXCEPT ![r.id] = d.s], Append(ls, d.v))
\* Faulty variant of draw: rng.choices whatever replace says.
draw_choices(items, replace, size, seed, heap, ls, entropy) ==
    LET r == get_rng(seed, heap, entropy)
    IN  IF r.status # "ok" THEN Raise(r.status, 0, heap, ls)
        ELSE IF size < 0 THEN Raise("InvalidSize", r.id, r.gens, ls)
        ELSE IF Len(ls[items]) = 0 \/ size = 0
        THEN Outcome("ok", FALSE, Len(ls) + 1, <<>>, r.id, 0, r.gens,
                     Append(ls, <<>>))
        ELSE LET d == choices(ls[items], size, r.gens[r.id])
             IN  Outcome("ok", FALSE, Len(ls) + 1, <<>>, r.id, d.n,
                         [r.gens EXCEPT ![r.id] = d.s], Append(ls, d.v))
\* Faulty variant of draw: the short cut tests size == 0 alone.
draw_no_empty_check(items, replace, size, seed, heap, ls, entropy) ==
    LET r == get_rng(seed, heap, entropy)
    IN  IF r.status # "ok" THEN Raise(r.status, 0, heap, ls)
        ELSE IF size < 0 THEN Raise("InvalidSize", r.id, r.gens, ls)
        ELSE IF size = 0
        THEN Outcome("ok", FALSE, Len(ls) + 1, <<>>, r.id, 0, r.gens,
                     Append(ls, <<>>))
        ELSE IF replace /\ Len(ls[items]) = 0
        THEN Raise("IndexError", r.id, r.gens, ls)
        ELSE LET d == IF replace THEN choices(ls[items], size, r.gens[r.id])
                                 ELSE sample(ls[items], size, r.gens[r.id])
             IN  IF d.status # "ok" THEN Raise(d.status, r.id, r.gens, ls)
                 ELSE Outcome("ok", FALSE, Len(ls) + 1, <<>>, r.id, d.n,
                              [r.gens EXCEPT ![r.id] = d.s], Append(ls, d.v))
draw(items, replace, size, seed, heap, ls, entropy) ==
    LET r == get_rng(seed, heap, entropy)
    IN  IF r.status # "ok" THEN Raise(r.status, 0, heap, ls)
        ELSE IF size < 0 THEN Raise("InvalidSize", r.id, r.gens, ls)
        ELSE IF Len(ls[items]) = 0 \/ size = 0
        THEN Outcome("ok", FALSE, Len(ls) + 1, <<>>, r.id, 0, r.gens,
                     Append(ls, <<>>))
        ELSE LET d == IF replace THEN choices(ls[items], size, r.gens[r.id])
                                 ELSE sample(ls[items], size, r.gens[r.id])
             IN  IF d.status # "ok" THEN Raise(d.status, r.id, r.gens, ls)
                 ELSE Outcome("ok", FALSE, Len(ls) + 1, <<>>, r.id, d.n,
                              [r.gens EXCEPT ![r.id] = d.s], Append(ls, d.v))

\* shuffle(items, seed)
\* Faulty variant of shuffle: items is shuffled in place and returned.
shuffle_inplace(items, seed, heap, ls, entropy) ==
    LET d == draw(items, FALSE, Len(ls[items]), seed, heap, ls, entropy)
    IN  IF d.status # "ok" THEN d
        ELSE [d EXCEPT !.res = items,
                       !.lists = [ls EXCEPT ![items] = d.lists[d.res]]]
shuffle(items, seed, heap, ls, entropy) ==
    draw(items, FALSE, Len(ls[items]), seed, heap, ls, entropy)

\* integers(size, lower, upper, seed): the seed is resolved and range(size)
\* is built when the generator expression is created; nothing is drawn.
NoIter == [rng |-> 0, lower |-> 0, upper |-> 0, left |-> 0, open |-> FALSE,
           size |-> 0, seed |-> BadSeed, own |-> FALSE]
\* Faulty variant of integers: the range is checked when the iterator is made.
integers_eager(size, lower, upper, seed, heap, entropy) ==
    LET r == get_rng(seed, heap, entropy)
    IN  IF r.status # "ok"
        THEN [status |-> r.status, it |-> NoIter, gens |-> heap, id |-> 0]
        ELSE IF lower >= upper
        THEN [status |-> "EmptyRange", it |-> NoIter, gens |-> heap, id |-> 0]
        ELSE [status |-> "ok", id |-> r.id, gens |-> r.gens,
              it |-> [rng |-> r.id, lower |-> lower, upper |-> upper,
                      left |-> IF size > 0 THEN size ELSE 0, open |-> TRUE,
                      size |-> size, seed |-> seed, own |-> IsFresh(seed)]]
integers(size, lower, upper, seed, heap, entropy) ==
    LET r == get_rng(seed, heap, entropy)
    IN  IF r.status # "ok"
        THEN [status |-> r.status, it |-> NoIter, gens |-> heap, id |-> 0]
        ELSE [status |-> "ok", id |-> r.id, gens |-> r.gens,
              it |-> [rng |-> r.id, lower |-> lower, upper |-> upper,
                      left |-> IF size > 0 THEN size ELSE 0, open |-> TRUE,
                      size |-> size, seed |-> seed, own |-> IsFresh(seed)]]

\* next(iterator): a finished generator expression stops; an exhausted
\* range finishes it; otherwise one randrange, whose error finishes it.
\* Faulty variant of next: rng.randrange(lower, upper + 1).
next_inclusive(i, heap) ==
    IF ~i.open \/ i.left = 0
    THEN [status |-> "StopIteration", num |-> <<>>, n |-> 0, gens |-> heap,
          it |-> [i EXCEPT !.open = FALSE]]
    ELSE LET d == randrange(i.lower, i.upper + 1, heap[i.rng])
         IN  IF d.status # "ok"
             THEN [status |-> d.status, num |-> <<>>, n |-> d.n,
                   gens |-> [heap EXCEPT ![i.rng] = d.s],
                   it |-> [i EXCEPT !.open = FALSE, !.left = i.left - 1]]
             ELSE [status |-> "ok", num |-> <<d.v>>, n |-> d.n,
                   gens |-> [heap EXCEPT ![i.rng] = d.s],
                   it |-> [i EXCEPT !.left = i.left - 1]]
next(i, heap) ==
    IF ~i.open \/ i.left = 0
    THEN [status |-> "StopIteration", num |-> <<>>, n |-> 0, gens |-> heap,
          it |-> [i EXCEPT !.open = FALSE]]
    ELSE LET d == randrange(i.lower, i.upper, heap[i.rng])
         IN  IF d.status # "ok"
             THEN [status |-> d.status, num |-> <<>>, n |-> d.n,
                   gens |-> [heap EXCEPT ![i.rng] = d.s],
                   it |-> [i EXCEPT !.open = FALSE, !.left = i.left - 1]]
             ELSE [status |-> "ok", num |-> <<d.v>>, n |-> d.n,
                   gens |-> [heap EXCEPT ![i.rng] = d.s],
                   it |-> [i EXCEPT !.left = i.left - 1]]

\* ------------------------------------------------------------- state
\* The caller holds one generator variable, one items list, the list the
\* latest draw or shuffle returned, and one iterator.
\* gens  : the random.Random objects the caller can name; a generator is
\*         its index.  gens[1] is the caller's generator, once made
\* lists : the list objects alive; lists[1] is the caller's items, a second
\*         entry is the list the latest draw or shuffle returned
\* it    : the iterator the caller holds (NoIter: none); size and seed
\*         remember the arguments it was created with; own says that its
\*         generator is reachable through the iterator alone
\* priv  : the state of the iterator's generator when it.own (else -1)
\* cur   : the call that has just returned (NoCall: none): its arguments
\*         (a), what it handed back (r), the state of the generator
\*         instance the call was given before the call (pre, -1 when there
\*         is none) and items after it
Args(seed, bias, replace, size, lower, upper, items) ==
    [seed |-> seed, bias |-> bias, replace |-> replace, size |-> size,
     lower |-> lower, upper |-> upper, items |-> items]
Ret(status, flag, res, num, id, n) ==
    [status |-> status, flag |-> flag, res |-> res, num |-> num, id |-> id,
     n |-> n]
Call(op, a, r, pre, after) ==
    [op |-> op, a |-> a, r |-> r, pre |-> pre, after |-> after]
NoCall == Call("none", Args(BadSeed, 0, FALSE, 0, 0, 0, <<>>),
               Ret("ok", FALSE, 0, <<>>, 0, 0), -1, <<>>)

Pre(seed, heap) == IF seed.kind = "rng" THEN heap[seed.v] ELSE -1
\* A generator made inside a call is dropped when the call returns.
Keep(heap) == SubSeq(heap, 1, Len(gens))
\* No seed: the operating system's entropy decides the state.
EntropyFor(seed) == IF seed.kind = "none" THEN Entropy ELSE {0}
\* The generator objects an iterator can reach: the caller's, and its own.
Heap(i, p) == IF i.own THEN Append(gens, p) ELSE gens
Iter(i)    == IF i.own THEN [i EXCEPT !.rng = Len(gens) + 1] ELSE i
Stored(i)  == IF i.own THEN [i EXCEPT !.rng = 0] ELSE i
\* The caller's items to begin with: a, b, a, ...
Items0 == [i \in 1 .. MaxLen |-> IF i % 2 = 1 THEN "a" ELSE "b"]

Init ==
    /\ gens = <<>>
    /\ lists = <<Items0>>
    /\ it = NoIter
    /\ priv = -1
    /\ cur = NoCall

\* rng = get_rng(seed); the caller makes its generator once, and may pass
\* it through get_rng again.
GetRng(seed) ==
    /\ cur = NoCall
    /\ IsFresh(seed) => gens = <<>>
    /\ \E e \in EntropyFor(seed) :
        LET r == get_rng(seed, gens, e)
        IN  /\ gens' = r.gens
            /\ cur' = Call("get_rng", Args(seed, 0, FALSE, 0, 0, 0, <<>>),
                           Ret(r.status, FALSE, 0, <<>>, r.id, 0),
                           Pre(seed, gens), lists[1])
            /\ UNCHANGED <<lists, it, priv>>

\* coinflip(bias, seed)
Coinflip(bias, seed) ==
    /\ cur = NoCall
    /\ \E e \in EntropyFor(seed) :
        LET c == coinflip(bias, seed, gens, e)
        IN  /\ gens' = Keep(c.gens)
            /\ cur' = Call("coinflip", Args(seed, bias, FALSE, 0, 0, 0, <<>>),
                           Ret(c.status, c.flag, 0, <<>>, c.id, c.n),
                           Pre(seed, gens), lists[1])
            /\ UNCHANGED <<lists, it, priv>>

\* result = draw(items, replace, size, seed)
Draw(replace, size, seed) ==
    /\ cur = NoCall
    /\ \E e \in EntropyFor(seed) :
        LET d == draw(1, replace, size, seed, gens, lists, e)
        IN  /\ gens' = Keep(d.gens)
            /\ lists' = d.lists
            /\ cur' = Call("draw", Args(seed, 0, replace, size, 0, 0, lists[1]),
                           Ret(d.status, FALSE, d.res, <<>>, d.id, d.n),
                           Pre(seed, gens), d.lists[1])
            /\ UNCHANGED <<it, priv>>

\* result = shuffle(items, seed)
Shuffle(seed) ==
    /\ cur = NoCall
    /\ \E e \in EntropyFor(seed) :
        LET d == shuffle(1, seed, gens, lists, e)
        IN  /\ gens' = Keep(d.gens)
            /\ lists' = d.lists
            /\ cur' = Call("shuffle", Args(seed, 0, FALSE, 0, 0, 0, lists[1]),
                           Ret(d.status, FALSE, d.res, <<>>, d.id, d.n),
                           Pre(seed, gens), d.lists[1])
            /\ UNCHANGED <<it, priv>>

\* it = integers(size, lower, upper, seed), in place of an earlier iterator
Integers(size, lower, upper, seed) ==
    /\ cur = NoCall
    /\ \E e \in EntropyFor(seed) :
        LET r == integers(size, lower, upper, seed, gens, e)
        IN  /\ gens' = Keep(r.gens)
            /\ it' = IF r.status = "ok" THEN Stored(r.it) ELSE it
            /\ priv' = IF r.status # "ok" THEN priv
                       ELSE IF r.it.own THEN r.gens[r.id] ELSE -1
            /\ cur' = Call("integers",
                           Args(seed, 0, FALSE, size, lower, upper, <<>>),
                           Ret(r.status, FALSE, 0, <<>>, r.id, 0),
                           Pre(seed, gens), lists[1])
            /\ UNCHANGED lists

\* next(it)
NextElem ==
    /\ cur = NoCall
    /\ it # NoIter
    /\ LET i == Iter(it)
           r == next(i, Heap(it, priv))
       IN  /\ gens' = Keep(r.gens)
           /\ it' = Stored(r.it)
           /\ priv' = IF it.own THEN r.gens[i.rng] ELSE -1
           /\ cur' = Call("next",
                          Args(it.seed, 0, FALSE, it.size, it.lower, it.upper,
                               <<>>),
                          Ret(r.status, FALSE, 0, r.num, i.rng, r.n),
                          Heap(it, priv)[i.rng], lists[1])
           /\ UNCHANGED lists

\* The caller changes its own items list in place: items.append(x),
\* items.pop().
Mutate ==
    /\ \/ \E x \in Elems : /\ Len(lists[1]) < MaxLen
                           /\ lists' = [lists EXCEPT ![1] = Append(@, x)]
       \/ /\ Len(lists[1]) > 0
          /\ lists' = [lists EXCEPT ![1] = SubSeq(@, 1, Len(@) - 1)]
    /\ UNCHANGED <<gens, it, priv, cur>>

\* The caller is done with what the latest call handed back: a returned
\* list is dropped.
Forget ==
    /\ cur # NoCall
    /\ cur' = NoCall
    /\ lists' = <<lists[1]>>
    /\ UNCHANGED <<gens, it, priv>>

DoGetRng(S)   == \E seed \in S : GetRng(seed)
DoCoinflip(S) == \E bias \in Biases, seed \in S : Coinflip(bias, seed)
DoDraw(S)     == \E replace \in BOOLEAN, size \in Sizes, seed \in S :
                     Draw(replace, size, seed)
DoShuffle(S)  == \E seed \in S : Shuffle(seed)
DoIntegers(S) == \E size \in Counts, lower \in Range, upper \in Range,
                    seed \in S : Integers(size, lower, upper, seed)

\* Every operation, in any order, on one items list, each call given an
\* integer seed or the caller's generator.
Next ==
    \/ DoGetRng(Shared(gens))
    \/ DoCoinflip(Shared(gens))
    \/ DoDraw(Shared(gens))
    \/ DoShuffle(Shared(gens))
    \/ DoIntegers(Shared(gens))
    \/ NextElem
    \/ Forget
Spec == Init /\ [][Next]_vars

\* draw and shuffle, on every items list, with every kind of seed.
NextDraw ==
    \/ DoGetRng(Seeds(gens))
    \/ DoDraw(Seeds(gens))
    \/ DoShuffle(Seeds(gens))
    \/ Mutate
    \/ Forget
SpecDraw == Init /\ [][NextDraw]_vars

\* coinflip, with every kind of seed.
NextFlip ==
    \/ DoGetRng(Seeds(gens))
    \/ DoCoinflip(Seeds(gens))
    \/ Forget
SpecFlip == Init /\ [][NextFlip]_vars

\* integers and its iterator, with every kind of seed.
NextInts ==
    \/ DoGetRng(Seeds(gens))
    \/ DoIntegers(Seeds(gens))
    \/ NextElem
    \/ Forget
SpecInts == Init /\ [][NextInts]_vars

\* ------------------------------------------------------------ claims
Count(s, e)   == Cardinality({i \in DOMAIN s : s[i] = e})
IsPerm(s, t)  == Len(s) = Len(t) /\ \A e \in Elems : Count(s, e) = Count(t, e)
SubBag(s, t)  == \A e \in Elems : Count(s, e) <= Count(t, e)
Distinct(s)   == \A i, j \in DOMAIN s : i # j => s[i] # s[j]
\* The list the latest call returned, and the state now of the generator
\* the latest call drew from.
Result        == lists[cur.r.res]
SeedIsRng     == cur.a.seed.kind = "rng"
SeedIsInt     == cur.a.seed.kind = "int"
SeedUntouched == SeedIsRng => gens[cur.a.seed.v] = cur.pre
IterGen       == IF it.own THEN priv ELSE gens[it.rng]

\* C1 as stated: for every items (the empty one included), a draw without
\* replacement of more elements than items holds fails with InvalidSize.
C1_Original ==
    (cur.op = "draw" /\ IsValid(cur.a.seed) /\ ~cur.a.replace
        /\ cur.a.size > Len(cur.a.items))
    => cur.r.status = "InvalidSize"

\* C1 amended: for every non-empty items, a draw without replacement of
\* more elements than items holds fails with InvalidSize and returns no
\* list; from an empty items it returns an empty list instead.
C1_Oversized ==
    (cur.op = "draw" /\ IsValid(cur.a.seed) /\ ~cur.a.replace
        /\ cur.a.size > Len(cur.a.items))
    => IF Len(cur.a.items) > 0
       THEN cur.r.status = "InvalidSize" /\ cur.r.res = 0 /\ Len(lists) = 1
       ELSE cur.r.status = "ok" /\ Result = <<>>
C1_Witness ==
    /\ cur.op = "draw" /\ IsValid(cur.a.seed) /\ ~cur.a.replace
    /\ Len(cur.a.items) > 0 /\ cur.a.size > Len(cur.a.items)
    /\ cur.r.status = "InvalidSize"

\* C2 as stated: a draw without replacement of 0 <= size <= len(items)
\* elements from a non-empty items returns size elements, all distinct, all
\* from items.
C2_Original ==
    (cur.op = "draw" /\ IsValid(cur.a.seed) /\ ~cur.a.replace
        /\ Len(cur.a.items) > 0
        /\ 0 <= cur.a.size /\ cur.a.size <= Len(cur.a.items))
    => /\ cur.r.status = "ok"
       /\ Len(Result) = cur.a.size
       /\ Distinct(Result)
       /\ \A i \in DOMAIN Result : \E j \in DOMAIN cur.a.items :
              Result[i] = cur.a.items[j]

\* C2 amended: such a draw returns size elements taken from distinct
\* positions of items: no element occurs more often in the result than in
\* items, and the elements are all distinct when those of items are.
C2_DistinctPositions ==
    (cur.op = "draw" /\ IsValid(cur.a.seed) /\ ~cur.a.replace
        /\ Len(cur.a.items) > 0
        /\ 0 <= cur.a.size /\ cur.a.size <= Len(cur.a.items))
    => /\ cur.r.status = "ok"
       /\ Len(Result) = cur.a.size
       /\ SubBag(Result, cur.a.items)
       /\ Distinct(cur.a.items) => Distinct(Result)
C2_Witness ==
    /\ cur.op = "draw" /\ IsValid(cur.a.seed) /\ ~cur.a.replace
    /\ Len(cur.a.items) = 2 /\ cur.a.items[1] = cur.a.items[2]
    /\ cur.a.size = 2 /\ cur.r.status = "ok" /\ Len(Result) = 2

\* C3 as stated: with any replace and any valid seed, draw returns an empty
\* list whenever items is empty or size is 0, and draws nothing: a
\* generator passed as seed keeps its state.
C3_Original ==
    (cur.op = "draw" /\ IsValid(cur.a.seed)
        /\ (Len(cur.a.items) = 0 \/ cur.a.size = 0))
    => /\ cur.r.status = "ok"
       /\ Result = <<>>
       /\ cur.r.n = 0
       /\ SeedUntouched

\* C3 amended: the same, for size >= 0 (a negative size fails with
\* InvalidSize even when items is empty).
C3_EmptyDraw ==
    (cur.op = "draw" /\ IsValid(cur.a.seed) /\ cur.a.size >= 0
        /\ (Len(cur.a.items) = 0 \/ cur.a.size = 0))
    => /\ cur.r.status = "ok"
       /\ Result = <<>>
       /\ cur.r.n = 0
       /\ SeedUntouched
C3_Witness ==
    /\ cur.op = "draw" /\ SeedIsRng /\ cur.a.replace
    /\ Len(cur.a.items) = 0 /\ cur.a.size > 0
    /\ cur.r.status = "ok" /\ gens[cur.a.seed.v] = cur.pre

\* C4: with any valid seed, shuffle returns a new list that is a
\* permutation of items as they were at the call, leaves items as they
\* were, and keeps its contents when the caller changes items afterwards.
C4_Shuffle ==
    (cur.op = "shuffle" /\ IsValid(cur.a.seed))
    => /\ cur.r.status = "ok"
       /\ cur.r.res # 1
       /\ cur.after = cur.a.items
       /\ IsPerm(Result, cur.a.items)
C4_Witness ==
    /\ cur.op = "shuffle" /\ IsValid(cur.a.seed) /\ cur.r.status = "ok"
    /\ Len(cur.a.items) = 2 /\ cur.a.items[1] = cur.a.items[2]
    /\ lists[1] # cur.a.items
    /\ Len(Result) = 2

\* C5: get_rng given a generator returns that very generator, its state
\* untouched; and every coinflip, draw, shuffle, integers and next given
\* the caller's generator draws from that generator itself, so that the
\* generator is left advanced by exactly the words the call drew from the
\* state the previous call left.
C5_SharedGenerator ==
    /\ (cur.op = "get_rng" /\ SeedIsRng)
       => /\ cur.r.status = "ok"
          /\ cur.r.id = cur.a.seed.v
          /\ Len(gens) = 1
          /\ gens[cur.a.seed.v] = cur.pre
    /\ (cur.op \in {"coinflip", "draw", "shuffle"} /\ SeedIsRng
           /\ cur.r.status = "ok")
       => /\ cur.r.id = cur.a.seed.v
          /\ gens[cur.a.seed.v] = StepN(cur.pre, cur.r.n)
    /\ (cur.op = "integers" /\ SeedIsRng)
       => /\ cur.r.status = "ok"
          /\ it.rng = cur.a.seed.v /\ ~it.own
          /\ gens[cur.a.seed.v] = cur.pre
    /\ (cur.op = "next" /\ SeedIsRng)
       => /\ it.rng = cur.a.seed.v /\ ~it.own
          /\ gens[cur.a.seed.v] = StepN(cur.pre, cur.r.n)
C5_Witness ==
    /\ cur.op = "draw" /\ SeedIsRng /\ cur.r.status = "ok" /\ cur.r.n > 0
    /\ it # NoIter /\ it.seed = cur.a.seed /\ it.left < it.size
    /\ gens[1] = StepN(cur.pre, cur.r.n)

\* The k-th next() of the iterator integers(size, lower, upper, seed) makes
\* in a memory that holds nothing else, under entropy e.
RECURSIVE NthNext(_, _, _)
NthNext(i, heap, k) ==
    LET r == next(i, heap)
    IN  IF k <= 1 THEN r ELSE NthNext(r.it, r.gens, k - 1)
AloneNext(a, k, e) ==
    LET r == integers(a.size, a.lower, a.upper, a.seed, <<>>, e)
    IN  NthNext(r.it, r.gens, k)

\* C6: a call given an integer seed returns what the same call returns in
\* a memory that holds nothing else, whatever the entropy: get_rng the
\* same generator state, coinflip the same boolean, draw and shuffle the
\* same list, and the k-th element of integers the same integer.  Hence
\* two calls with the same arguments and the same integer seed agree,
\* whatever ran in between.
C6_SeedDeterminism ==
    SeedIsInt => \A e \in Entropy :
        /\ cur.op = "get_rng"
           => gens[cur.r.id] = get_rng(cur.a.seed, <<>>, e).gens[1]
        /\ cur.op = "coinflip"
           => LET c == coinflip(cur.a.bias, cur.a.seed, <<>>, e)
              IN  cur.r.status = c.status /\ cur.r.flag = c.flag
        /\ cur.op = "draw"
           => LET d == draw(1, cur.a.replace, cur.a.size, cur.a.seed, <<>>,
                            <<cur.a.items>>, e)
              IN  /\ cur.r.status = d.status
                  /\ d.status = "ok" => Result = d.lists[d.res]
        /\ cur.op = "shuffle"
           => LET d == shuffle(1, cur.a.seed, <<>>, <<cur.a.items>>, e)
              IN  /\ cur.r.status = d.status
                  /\ d.status = "ok" => Result = d.lists[d.res]
        /\ (cur.op = "next" /\ cur.r.status = "ok")
           => LET r == AloneNext(cur.a, cur.a.size - it.left, e)
              IN  r.status = "ok" /\ r.num = cur.r.num
        /\ (cur.op = "next" /\ cur.r.status = "EmptyRange")
           => AloneNext(cur.a, 1, e).status = "EmptyRange"
C6_Witness ==
    /\ cur.op = "next" /\ SeedIsInt /\ cur.r.status = "ok"
    /\ cur.a.size - it.left = 2
    /\ gens # <<>> /\ gens[1] # Random(cur.a.seed, 0)

\* C7: for a bias in [0, 1] coinflip draws exactly one uniform value u in
\* [0, 1) from the resolved generator and returns true iff u < bias; so
\* coinflip(0) is false and coinflip(1) is true for every generator state.
C7_Coinflip ==
    (cur.op = "coinflip" /\ IsValid(cur.a.seed)
        /\ 0 <= cur.a.bias /\ cur.a.bias <= BiasDen)
    => /\ cur.r.status = "ok"
       /\ cur.r.n = 1
       /\ SeedIsRng
          => /\ gens[cur.a.seed.v] = Step(cur.pre)
             /\ cur.r.flag = (Step(cur.pre) * BiasDen < cur.a.bias * Modulus)
       /\ SeedIsInt
          => cur.r.flag = (Step(Random(cur.a.seed, 0)) * BiasDen
                              < cur.a.bias * Modulus)
       /\ cur.a.bias = 0 => ~cur.r.flag
       /\ cur.a.bias = BiasDen => cur.r.flag
C7_Witness ==
    /\ cur.op = "coinflip" /\ SeedIsRng /\ cur.r.status = "ok"
    /\ 0 < cur.a.bias /\ cur.a.bias < BiasDen
    /\ cur.r.flag /\ gens[1] = Step(cur.pre)

\* C8: for size >= 0 and lower < upper, every element the iterator yields
\* lies in [lower, upper) and costs a draw; the iterator stops after
\* exactly size elements, and stopping (the first time or again) yields
\* nothing and draws nothing.
C8_Integers ==
    (cur.op = "next" /\ IsValid(cur.a.seed) /\ cur.a.size >= 0
        /\ cur.a.lower < cur.a.upper)
    => /\ cur.r.status \in {"ok", "StopIteration"}
       /\ cur.r.status = "ok"
          => /\ Len(cur.r.num) = 1
             /\ cur.a.lower <= cur.r.num[1] /\ cur.r.num[1] < cur.a.upper
             /\ cur.r.n >= 1
             /\ IterGen = StepN(cur.pre, cur.r.n)
             /\ cur.a.size - it.left \in 1 .. cur.a.size
       /\ cur.r.status = "StopIteration"
          => /\ cur.a.size - it.left = cur.a.size
             /\ ~it.open
             /\ cur.r.num = <<>>
             /\ cur.r.n = 0
             /\ IterGen = cur.pre
C8_Witness ==
    /\ cur.op = "next" /\ IsValid(cur.a.seed) /\ cur.a.lower < cur.a.upper
    /\ cur.a.size = 2 /\ cur.r.status = "StopIteration" /\ it.left = 0
    /\ IterGen = cur.pre

\* C9: with lower >= upper and a valid seed, integers itself never fails
\* and draws nothing; if size > 0 the first next() fails with EmptyRange,
\* no next() yields an element and none fails later; if size = 0 next()
\* stops without a failure; no next() draws.
C9_LazyEmptyRange ==
    /\ (cur.op = "integers" /\ IsValid(cur.a.seed)
           /\ cur.a.lower >= cur.a.upper)
       => /\ cur.r.status = "ok"
          /\ cur.r.n = 0
          /\ it.open /\ it.left = cur.a.size
          /\ it.lower = cur.a.lower /\ it.upper = cur.a.upper
          /\ SeedUntouched
    /\ (cur.op = "next" /\ IsValid(cur.a.seed)
           /\ cur.a.lower >= cur.a.upper)
       => /\ cur.r.status \in {"EmptyRange", "StopIteration"}
          /\ cur.a.size > 0 => it.left = cur.a.size - 1
          /\ cur.a.size = 0 => cur.r.status = "StopIteration"
          /\ ~it.open
          /\ cur.r.num = <<>>
          /\ cur.r.n = 0
          /\ IterGen = cur.pre
C9_Witness ==
    /\ cur.op = "next" /\ SeedIsRng /\ cur.a.lower > cur.a.upper
    /\ cur.a.size = 2 /\ cur.r.status = "EmptyRange" /\ it.left = 1

\* C10: a call of coinflip, draw or next that fails with InvalidBias,
\* InvalidSize or EmptyRange has drawn nothing and hands back nothing: the
\* generator it was given (the caller's, or the iterator's own) is in the
\* state it had before the call, and no list was made.
C10_FailuresDrawNothing ==
    cur.r.status \in {"InvalidBias", "InvalidSize", "EmptyRange"}
    => /\ cur.op \in {"coinflip", "draw", "next"}
       /\ cur.r.n = 0
       /\ cur.r.res = 0 /\ Len(lists) = 1
       /\ cur.r.num = <<>>
       /\ ~cur.r.flag
       /\ SeedUntouched
       /\ cur.op = "next" => IterGen = cur.pre
C10_Witness ==
    /\ cur.op = "draw" /\ SeedIsRng /\ ~cur.a.replace
    /\ cur.a.size > Len(cur.a.items)
    /\ cur.r.status = "InvalidSize"
    /\ it # NoIter /\ it.seed = cur.a.seed /\ it.left < it.size
    /\ gens[1] = cur.pre
=============================================================================
